---- MODULE Spec2Model ----
(***************************************************************************)
(* Two-pass assembler of src/assembler.py (class Assembler).               *)
(*                                                                         *)
(* A token is a sequence of one-character strings, a source line is a      *)
(* sequence of tokens and the program (self.__asm) is a sequence of lines, *)
(* as produced by read_code (rstrip().lower().split()).  A Python dict is  *)
(* a sequence of [k, v] records in insertion order.                        *)
(***************************************************************************)
EXTENDS Integers, Sequences, FiniteSets, TLC

VARIABLES
    asm,                   \* self.__asm
    mri_table,             \* self.__mri_table
    rri_table,             \* self.__rri_table
    ioi_table,             \* self.__ioi_table
    address_symbol_table,  \* self.__address_symbol_table
    bin,                   \* self.__bin
    pc,                    \* position inside assemble()
    i,                     \* index of the line the running pass looks at next
    lc,                    \* the running pass's location counter
    err,                   \* exception that left assemble(), or "none"
    errLine,               \* index of the line that raised it (0: no line)
    errIn,                 \* the method that raised it, or "none"
    ret,                   \* what assemble() returned to its caller
    p1trace,               \* observation: [idx, lc] per line Pass 1 examined
    p2trace                \* observation: [idx, lc, key, word] per word Pass 2 stored

vars == <<asm, mri_table, rri_table, ioi_table, address_symbol_table, bin,
          pc, i, lc, err, errLine, errIn, ret, p1trace, p2trace>>

----------------------------------------------------------------------------
(* Bounds of the explored inputs. *)
MaxLines == 4
MaxEdgeLines == 2
MaxClassLines == 2

(* Widths the code passes to __format2bin. *)
AddrBits == 12
WordBits == 16

----------------------------------------------------------------------------
(* Strings as sequences of characters. *)

Rep(c, n) == [k \in 1..n |-> c]

Last(s) == s[Len(s)]

\* str.endswith(',')
EndsWithComma(s) == Len(s) > 0 /\ Last(s) = ","

\* str.startswith('/')
StartsWithSlash(s) == Len(s) > 0 /\ s[1] = "/"

\* s[:-1]
DropLast(s) == IF Len(s) = 0 THEN s ELSE SubSeq(s, 1, Len(s) - 1)

----------------------------------------------------------------------------
(* Python dict: insertion-ordered, assignment to a present key keeps its   *)
(* position.                                                               *)

EmptyDict == << >>

DictKeys(d) == { d[k].k : k \in DOMAIN d }

DictHas(d, key) == \E k \in DOMAIN d : d[k].k = key

DictGet(d, key) == d[CHOOSE k \in DOMAIN d : d[k].k = key].v

DictSet(d, key, val) ==
    IF DictHas(d, key)
    THEN [k \in DOMAIN d |-> IF d[k].k = key THEN [k |-> key, v |-> val] ELSE d[k]]
    ELSE Append(d, [k |-> key, v |-> val])

----------------------------------------------------------------------------
(* int(), str(), '{:b}'.format() and str.zfill().                          *)

DigitVal(c) ==
    CASE c = "0" -> 0 [] c = "1" -> 1 [] c = "2" -> 2 [] c = "3" -> 3
      [] c = "4" -> 4 [] c = "5" -> 5 [] c = "6" -> 6 [] c = "7" -> 7
      [] c = "8" -> 8 [] c = "9" -> 9 [] c = "a" -> 10 [] c = "b" -> 11
      [] c = "c" -> 12 [] c = "d" -> 13 [] c = "e" -> 14 [] c = "f" -> 15
      [] OTHER -> 99

DigitChar(n) ==
    CASE n = 0 -> "0" [] n = 1 -> "1" [] n = 2 -> "2" [] n = 3 -> "3"
      [] n = 4 -> "4" [] n = 5 -> "5" [] n = 6 -> "6" [] n = 7 -> "7"
      [] n = 8 -> "8" [] n = 9 -> "9"

IsSign(c) == c \in {"+", "-"}

RECURSIVE DigitsVal(_, _)
\* value of a string of valid digits in the given base
DigitsVal(s, base) ==
    IF Len(s) = 0 THEN 0
    ELSE DigitsVal(DropLast(s), base) * base + DigitVal(Last(s))

\* int(s, base): optional sign, then one or more digits of the base;
\* anything else raises ValueError.
ParseInt(s, base) ==
    LET body == IF Len(s) > 0 /\ IsSign(s[1]) THEN Tail(s) ELSE s
        neg  == Len(s) > 0 /\ s[1] = "-"
    IN  IF Len(body) = 0 \/ \E k \in DOMAIN body : DigitVal(body[k]) >= base
        THEN [err |-> "ValueError", val |-> 0]
        ELSE [err |-> "none",
              val |-> IF neg THEN 0 - DigitsVal(body, base) ELSE DigitsVal(body, base)]

RECURSIVE NatStr(_)
NatStr(n) == IF n < 10 THEN <<DigitChar(n)>> ELSE NatStr(n \div 10) \o <<DigitChar(n % 10)>>

\* str(n)
Str(n) == IF n < 0 THEN <<"-">> \o NatStr(0 - n) ELSE NatStr(n)

RECURSIVE NatBin(_)
NatBin(n) == IF n < 2 THEN <<DigitChar(n)>> ELSE NatBin(n \div 2) \o <<DigitChar(n % 2)>>

\* '{:b}'.format(n)
FormatB(n) == IF n < 0 THEN <<"-">> \o NatBin(0 - n) ELSE NatBin(n)

\* str.zfill(width): pads with zeros after a leading sign, never shortens
ZFill(s, width) ==
    IF Len(s) >= width THEN s
    ELSE IF Len(s) > 0 /\ IsSign(s[1])
         THEN <<s[1]>> \o Rep("0", width - Len(s)) \o Tail(s)
         ELSE Rep("0", width - Len(s)) \o s

T_dec == <<"d", "e", "c">>
T_hex == <<"h", "e", "x">>
T_org == <<"o", "r", "g">>
T_end == <<"e", "n", "d">>

\* Assembler.__format2bin
Format2bin(num, numformat, format_bits) ==
    IF numformat = T_dec
    THEN LET p == ParseInt(num, 10)
         IN  IF p.err # "none" THEN [err |-> p.err, val |-> << >>]
             ELSE [err |-> "none", val |-> ZFill(FormatB(p.val), format_bits)]
    ELSE IF numformat = T_hex
    THEN LET p == ParseInt(num, 16)
         IN  IF p.err # "none" THEN [err |-> p.err, val |-> << >>]
             ELSE [err |-> "none", val |-> ZFill(FormatB(p.val), format_bits)]
    ELSE [err |-> "Exception", val |-> << >>]

\* Assembler.__islabel
IsLabel(string) == EndsWithComma(string)

----------------------------------------------------------------------------
(* Assembler.__rm_comments *)

FirstComment(line) ==
    IF \E j \in DOMAIN line : StartsWithSlash(line[j])
    THEN CHOOSE j \in DOMAIN line :
            /\ StartsWithSlash(line[j])
            /\ \A h \in 1..(j - 1) : ~StartsWithSlash(line[h])
    ELSE Len(line) + 1

RmCommentsLine(line) == SubSeq(line, 1, FirstComment(line) - 1)

RmComments(lines) == [n \in DOMAIN lines |-> RmCommentsLine(lines[n])]

----------------------------------------------------------------------------
(* One iteration of the loop of Assembler.__first_pass over `line`, with   *)
(* location counter lc0 and symbol table st.  ctl is "next" (the loop goes *)
(* on), "break" or "raise".                                                *)

\* Variants of FirstPassLine with a seeded fault: a label line advances the
\* counter by labelStep, and an end line leaves the loop with endCtl.
FirstPassLine_Variant(line, lc0, st, labelStep, endCtl) ==
    IF Len(line) = 0
    THEN [ctl |-> "raise", err |-> "IndexError", lc |-> lc0, st |-> st]
    ELSE IF IsLabel(line[1])
    THEN [ctl |-> "next", err |-> "none", lc |-> lc0 + labelStep,
          st |-> DictSet(st, DropLast(line[1]), Format2bin(Str(lc0), T_dec, AddrBits).val)]
    ELSE IF line[1] = T_org
    THEN IF Len(line) < 2
         THEN [ctl |-> "raise", err |-> "IndexError", lc |-> lc0, st |-> st]
         ELSE LET p == ParseInt(line[2], 16)
              IN  IF p.err # "none"
                  THEN [ctl |-> "raise", err |-> p.err, lc |-> lc0, st |-> st]
                  ELSE [ctl |-> "next", err |-> "none", lc |-> p.val, st |-> st]
    ELSE IF line[1] = T_end
    THEN [ctl |-> endCtl, err |-> "none", lc |-> lc0, st |-> st]
    ELSE [ctl |-> "next", err |-> "none", lc |-> lc0 + 1, st |-> st]

\* fault: a label line does not advance the location counter
FirstPassLine_LabelKeepsCounter(line, lc0, st) ==
    FirstPassLine_Variant(line, lc0, st, 0, "break")

\* fault: the end directive does not stop Pass 1
FirstPassLine_EndContinues(line, lc0, st) ==
    FirstPassLine_Variant(line, lc0, st, 1, "next")

FirstPassLine(line, lc0, st) ==
    IF Len(line) = 0
    THEN [ctl |-> "raise", err |-> "IndexError", lc |-> lc0, st |-> st]
    ELSE IF IsLabel(line[1])
    THEN [ctl |-> "next", err |-> "none", lc |-> lc0 + 1,
          st |-> DictSet(st, DropLast(line[1]), Format2bin(Str(lc0), T_dec, AddrBits).val)]
    ELSE IF line[1] = T_org
    THEN IF Len(line) < 2
         THEN [ctl |-> "raise", err |-> "IndexError", lc |-> lc0, st |-> st]
         ELSE LET p == ParseInt(line[2], 16)
              IN  IF p.err # "none"
                  THEN [ctl |-> "raise", err |-> p.err, lc |-> lc0, st |-> st]
                  ELSE [ctl |-> "next", err |-> "none", lc |-> p.val, st |-> st]
    ELSE IF line[1] = T_end
    THEN [ctl |-> "break", err |-> "none", lc |-> lc0, st |-> st]
    ELSE [ctl |-> "next", err |-> "none", lc |-> lc0 + 1, st |-> st]

----------------------------------------------------------------------------
(* Assembler.__second_pass *)

\* fault: an absent label resolves to address 0 instead of raising
Resolve_Default(st, name) ==
    IF DictHas(st, name)
    THEN [err |-> "none", val |-> DictGet(st, name)]
    ELSE [err |-> "none", val |-> Rep("0", AddrBits)]

\* self.__address_symbol_table[line[1]]
Resolve(st, name) ==
    IF DictHas(st, name)
    THEN [err |-> "none", val |-> DictGet(st, name)]
    ELSE [err |-> "KeyError", val |-> << >>]

\* fault: the input/output table is consulted before the second token is
\* looked up in the register-reference table
Classify_IoFirst(line, st) ==
    IF DictHas(mri_table, line[1])
    THEN IF Len(line) < 2
         THEN [err |-> "IndexError", instruction |-> << >>]
         ELSE LET a == Resolve(st, line[2])
              IN  IF a.err # "none"
                  THEN [err |-> a.err, instruction |-> << >>]
                  ELSE [err |-> "none",
                        instruction |-> <<"0">> \o DictGet(mri_table, line[1]) \o a.val]
    ELSE IF DictHas(rri_table, line[1])
    THEN [err |-> "none", instruction |-> DictGet(rri_table, line[1])]
    ELSE IF DictHas(ioi_table, line[1])
    THEN [err |-> "none", instruction |-> DictGet(ioi_table, line[1])]
    ELSE IF Len(line) < 2
    THEN [err |-> "IndexError", instruction |-> << >>]
    ELSE IF DictHas(rri_table, line[2])
    THEN [err |-> "none", instruction |-> DictGet(rri_table, line[2])]
    ELSE IF line[2] = T_hex
    THEN IF Len(line) < 3
         THEN [err |-> "IndexError", instruction |-> << >>]
         ELSE LET f == Format2bin(line[3], T_hex, WordBits)
              IN  [err |-> f.err, instruction |-> f.val]
    ELSE IF line[2] = T_dec
    THEN IF Len(line) < 3
         THEN [err |-> "IndexError", instruction |-> << >>]
         ELSE LET f == Format2bin(line[3], T_dec, WordBits)
              IN  [err |-> f.err, instruction |-> f.val]
    ELSE [err |-> "none", instruction |-> << >>]

\* the if/elif chain that computes `instruction` for one line
Classify(line, st) ==
    IF DictHas(mri_table, line[1])
    THEN IF Len(line) < 2
         THEN [err |-> "IndexError", instruction |-> << >>]
         ELSE LET a == Resolve(st, line[2])
              IN  IF a.err # "none"
                  THEN [err |-> a.err, instruction |-> << >>]
                  ELSE [err |-> "none",
                        instruction |-> <<"0">> \o DictGet(mri_table, line[1]) \o a.val]
    ELSE IF DictHas(rri_table, line[1])
    THEN [err |-> "none", instruction |-> DictGet(rri_table, line[1])]
    ELSE IF Len(line) < 2
    THEN [err |-> "IndexError", instruction |-> << >>]
    ELSE IF DictHas(rri_table, line[2])
    THEN [err |-> "none", instruction |-> DictGet(rri_table, line[2])]
    ELSE IF DictHas(ioi_table, line[1])
    THEN [err |-> "none", instruction |-> DictGet(ioi_table, line[1])]
    ELSE IF line[2] = T_hex
    THEN IF Len(line) < 3
         THEN [err |-> "IndexError", instruction |-> << >>]
         ELSE LET f == Format2bin(line[3], T_hex, WordBits)
              IN  [err |-> f.err, instruction |-> f.val]
    ELSE IF line[2] = T_dec
    THEN IF Len(line) < 3
         THEN [err |-> "IndexError", instruction |-> << >>]
         ELSE LET f == Format2bin(line[3], T_dec, WordBits)
              IN  [err |-> f.err, instruction |-> f.val]
    ELSE [err |-> "none", instruction |-> << >>]

\* Variants of SecondPassLine with a seeded fault: a stored word advances the
\* counter by step.
SecondPassLine_Variant(line, lc0, st, b, step) ==
    LET stay == [ctl |-> "raise", err |-> "IndexError", lc |-> lc0, bin |-> b,
                 emit |-> FALSE, key |-> << >>, word |-> << >>]
    IN
    IF Len(line) = 0
    THEN stay
    ELSE IF line[1] = T_org
    THEN IF Len(line) < 2
         THEN stay
         ELSE LET p == ParseInt(line[2], 16)
              IN  IF p.err # "none"
                  THEN [stay EXCEPT !.err = p.err]
                  ELSE [stay EXCEPT !.ctl = "next", !.err = "none", !.lc = p.val]
    ELSE IF line[1] = T_end
    THEN [stay EXCEPT !.ctl = "break", !.err = "none"]
    ELSE LET c   == Classify(line, st)
             key == Format2bin(Str(lc0), T_dec, AddrBits).val
         IN  IF c.err # "none"
             THEN [stay EXCEPT !.err = c.err]
             ELSE [ctl |-> "next", err |-> "none", lc |-> lc0 + step,
                   bin |-> DictSet(b, key, c.instruction),
                   emit |-> TRUE, key |-> key, word |-> c.instruction]

\* fault: the counter is not advanced after a word is stored
SecondPassLine_NoIncrement(line, lc0, st, b) == SecondPassLine_Variant(line, lc0, st, b, 0)

\* fault: the counter is decremented after a word is stored
SecondPassLine_Decrement(line, lc0, st, b) == SecondPassLine_Variant(line, lc0, st, b, 0 - 1)

\* One iteration of the loop of Assembler.__second_pass.  emit says whether
\* the iteration stored a word, under `key`.
SecondPassLine(line, lc0, st, b) ==
    LET stay == [ctl |-> "raise", err |-> "IndexError", lc |-> lc0, bin |-> b,
                 emit |-> FALSE, key |-> << >>, word |-> << >>]
    IN
    IF Len(line) = 0
    THEN stay
    ELSE IF line[1] = T_org
    THEN IF Len(line) < 2
         THEN stay
         ELSE LET p == ParseInt(line[2], 16)
              IN  IF p.err # "none"
                  THEN [stay EXCEPT !.err = p.err]
                  ELSE [stay EXCEPT !.ctl = "next", !.err = "none", !.lc = p.val]
    ELSE IF line[1] = T_end
    THEN [stay EXCEPT !.ctl = "break", !.err = "none"]
    ELSE LET c   == Classify(line, st)
             key == Format2bin(Str(lc0), T_dec, AddrBits).val
         IN  IF c.err # "none"
             THEN [stay EXCEPT !.err = c.err]
             ELSE [ctl |-> "next", err |-> "none", lc |-> lc0 + 1,
                   bin |-> DictSet(b, key, c.instruction),
                   emit |-> TRUE, key |-> key, word |-> c.instruction]

----------------------------------------------------------------------------
(* Tokens, lines and opcode tables of the explored inputs. *)

T_lda == <<"l", "d", "a">>
T_cla == <<"c", "l", "a">>
T_hlt == <<"h", "l", "t">>
T_x   == <<"x">>
T_xc  == <<"x", ",">>
T_lc  == <<"l", ",">>

Code_lda == <<"0", "1", "0">>
Code_cla == Rep("1", 5) \o Rep("0", 11)
Code_hlt == Rep("1", 5) \o Rep("0", 10) \o <<"1">>

\* the tables of the spec's scenario
ScenarioTables ==
    [mri |-> <<[k |-> T_lda, v |-> Code_lda]>>,
     rri |-> <<[k |-> T_cla, v |-> Code_cla]>>,
     ioi |-> <<[k |-> T_hlt, v |-> Code_hlt]>>]

L_org0  == <<T_org, <<"0">>>>
L_org2  == <<T_org, <<"2">>>>
L_cla   == <<T_cla>>
L_ldax  == <<T_lda, T_x>>
L_hlt   == <<T_hlt>>
L_xdec5 == <<T_xc, T_dec, <<"5">>>>
L_xcla  == <<T_xc, T_cla>>
L_llda  == <<T_lc, T_lda, T_x>>
L_end   == <<T_end>>

ScenarioProgram == <<L_org0, L_cla, L_ldax, L_hlt, L_xdec5, L_end>>

MainPool == {L_org0, L_org2, L_cla, L_ldax, L_hlt, L_xdec5, L_xcla, L_llda, L_end}

\* lines that are empty, commented, malformed or too wide
T_slashc == <<"/", "c">>

L_empty    == << >>
L_comment  == <<T_slashc, T_cla>>
L_clacomm  == <<T_cla, T_slashc, T_x>>
L_org1000  == <<T_org, <<"1", "0", "0", "0">>>>
L_orgfff   == <<T_org, <<"f", "f", "f">>>>
L_orgx     == <<T_org, T_x>>
L_org      == <<T_org>>
L_orgneg   == <<T_org, <<"-", "1">>>>
L_xhexwide == <<T_xc, T_hex, <<"1", "0", "0", "0", "0">>>>
L_xhexffff == <<T_xc, T_hex, <<"f", "f", "f", "f">>>>
L_xhex     == <<T_xc, T_hex>>
L_xdecneg  == <<T_xc, T_dec, <<"-", "5">>>>
L_xdecbad  == <<T_xc, T_dec, <<"f">>>>
L_lda      == <<T_lda>>

EdgePool == {L_empty, L_comment, L_clacomm, L_org1000, L_orgfff, L_orgx, L_org,
             L_orgneg, L_xhexwide, L_xhexffff, L_xhex, L_xdecneg, L_xdecbad, L_lda,
             L_cla, L_ldax, L_end}

\* tables in which one mnemonic belongs to several tables
T_inp  == <<"i", "n", "p">>
T_hltc == <<"h", "l", "t", ",">>

Code_cla_mri == <<"0", "0", "1">>
Code_hlt_rri == <<"0", "1", "1", "1">> \o Rep("0", 11) \o <<"1">>
Code_inp     == Rep("1", 5) \o Rep("0", 11)
Code_cla_rri == <<"0", "1", "1", "1", "1">> \o Rep("0", 11)

OverlapTables ==
    [mri |-> <<[k |-> T_lda, v |-> Code_lda], [k |-> T_cla, v |-> Code_cla_mri]>>,
     rri |-> <<[k |-> T_cla, v |-> Code_cla_rri], [k |-> T_hlt, v |-> Code_hlt_rri]>>,
     ioi |-> <<[k |-> T_hlt, v |-> Code_hlt], [k |-> T_inp, v |-> Code_inp]>>]

L_clax    == <<T_cla, T_x>>
L_ldahlt  == <<T_lda, T_hlt>>
L_hltdec5 == <<T_hltc, T_dec, <<"5">>>>
L_hltcla  == <<T_hlt, T_cla>>
L_inpcla  == <<T_inp, T_cla>>
L_inphex  == <<T_inp, T_hex, <<"5">>>>
L_hlthex  == <<T_hlt, T_hex, <<"5">>>>
L_xhex1f  == <<T_xc, T_hex, <<"1", "f">>>>
L_inpx    == <<T_inp, T_x>>

ClassPool == {L_clax, L_ldahlt, L_hltdec5, L_hltcla, L_inpcla, L_inphex, L_hlthex,
              L_xhex1f, L_inpx, L_xdec5, L_hlt, L_end}

SeqsUpTo(S, n) == UNION { [1..m -> S] : m \in 0..n }

NoReturn == [returned |-> FALSE, value |-> EmptyDict]

\* the object after __init__ and read_code
InitWith(programs, tableSets) ==
    /\ asm \in programs
    /\ \E t \in tableSets :
          /\ mri_table = t.mri
          /\ rri_table = t.rri
          /\ ioi_table = t.ioi
    /\ address_symbol_table = EmptyDict
    /\ bin = EmptyDict
    /\ pc = "assemble"
    /\ i = 0
    /\ lc = 0
    /\ err = "none"
    /\ errLine = 0
    /\ errIn = "none"
    /\ ret = NoReturn
    /\ p1trace = << >>
    /\ p2trace = << >>

Init ==
    \/ InitWith(SeqsUpTo(MainPool, MaxLines) \cup SeqsUpTo(EdgePool, MaxEdgeLines)
                  \cup {ScenarioProgram},
                {ScenarioTables})
    \/ InitWith(SeqsUpTo(ClassPool, MaxClassLines), {ScenarioTables, OverlapTables})

----------------------------------------------------------------------------
(* assemble() *)

Raise(e, n) ==
    /\ pc' = "raised"
    /\ err' = e
    /\ errLine' = n
    /\ errIn' = pc

\* assemble(): the assertion, __rm_comments, and the entry of __first_pass
AssembleStart ==
    /\ pc = "assemble"
    /\ IF Len(asm) = 0
       THEN /\ Raise("AssertionError", 0)
            /\ UNCHANGED <<asm, i, lc>>
       ELSE /\ asm' = RmComments(asm)
            /\ pc' = "pass1"
            /\ i' = 1
            /\ lc' = 0
            /\ UNCHANGED <<err, errLine, errIn>>
    /\ UNCHANGED <<mri_table, rri_table, ioi_table, address_symbol_table, bin,
                   ret, p1trace, p2trace>>

\* one iteration of the loop of __first_pass
FirstPassStep ==
    /\ pc = "pass1"
    /\ i <= Len(asm)
    /\ LET r == FirstPassLine(asm[i], lc, address_symbol_table)
       IN  /\ p1trace' = Append(p1trace, [idx |-> i, lc |-> lc])
           /\ address_symbol_table' = r.st
           /\ lc' = r.lc
           /\ IF r.ctl = "raise"
              THEN Raise(r.err, i) /\ i' = i
              ELSE /\ pc' = IF r.ctl = "break" THEN "pass1_end" ELSE "pass1"
                   /\ i' = i + 1
                   /\ UNCHANGED <<err, errLine, errIn>>
    /\ UNCHANGED <<asm, mri_table, rri_table, ioi_table, bin, ret, p2trace>>

\* __first_pass returns and __second_pass starts
FirstPassEnd ==
    /\ \/ pc = "pass1" /\ i > Len(asm)
       \/ pc = "pass1_end"
    /\ pc' = "pass2"
    /\ i' = 1
    /\ lc' = 0
    /\ UNCHANGED <<asm, mri_table, rri_table, ioi_table, address_symbol_table, bin,
                   err, errLine, errIn, ret, p1trace, p2trace>>

\* one iteration of the loop of __second_pass
SecondPassStep ==
    /\ pc = "pass2"
    /\ i <= Len(asm)
    /\ LET r == SecondPassLine(asm[i], lc, address_symbol_table, bin)
       IN  /\ bin' = r.bin
           /\ lc' = r.lc
           /\ p2trace' = IF r.emit
                         THEN Append(p2trace, [idx |-> i, lc |-> lc, key |-> r.key,
                                               word |-> r.word])
                         ELSE p2trace
           /\ IF r.ctl = "raise"
              THEN Raise(r.err, i) /\ i' = i
              ELSE /\ pc' = IF r.ctl = "break" THEN "pass2_end" ELSE "pass2"
                   /\ i' = i + 1
                   /\ UNCHANGED <<err, errLine, errIn>>
    /\ UNCHANGED <<asm, mri_table, rri_table, ioi_table, address_symbol_table,
                   ret, p1trace>>

\* __second_pass returns and assemble() returns self.__bin
AssembleReturn ==
    /\ \/ pc = "pass2" /\ i > Len(asm)
       \/ pc = "pass2_end"
    /\ pc' = "done"
    /\ ret' = [returned |-> TRUE, value |-> bin]
    /\ UNCHANGED <<asm, mri_table, rri_table, ioi_table, address_symbol_table, bin,
                   i, lc, err, errLine, errIn, p1trace, p2trace>>

Next ==
    \/ AssembleStart
    \/ FirstPassStep
    \/ FirstPassEnd
    \/ SecondPassStep
    \/ AssembleReturn

Spec == Init /\ [][Next]_vars

----------------------------------------------------------------------------
(* Vocabulary of the properties, read off the program text (asm after      *)
(* comment removal) and the specification's rules.                         *)

Bits(n, width) == ZFill(NatBin(n), width)

IsBitString(s, width) == Len(s) = width /\ \A k \in DOMAIN s : s[k] \in {"0", "1"}

\* numeric value of a key of the output mapping
KeyVal(key) == ParseInt(key, 2).val

IsEndLine(n) == Len(asm[n]) > 0 /\ asm[n][1] = T_end

IsOrgLine(n) == Len(asm[n]) > 0 /\ asm[n][1] = T_org

IsEmptyLine(n) == Len(asm[n]) = 0

\* index of the first end line, Len(asm) + 1 when there is none
EndIdx ==
    IF \E n \in DOMAIN asm : IsEndLine(n)
    THEN CHOOSE n \in DOMAIN asm : IsEndLine(n) /\ \A m \in 1..(n - 1) : ~IsEndLine(m)
    ELSE Len(asm) + 1

\* the instruction-bearing lines: before end, neither org nor end
InstrLines == { n \in 1..(EndIdx - 1) : ~IsOrgLine(n) }

\* the lines before end that define label `name`
LabelDefs(name) ==
    { n \in 1..(EndIdx - 1) : Len(asm[n]) > 0 /\ asm[n][1] = name \o <<",">> }

\* labels defined on some line, before end / after the first end
LabelsBeforeEnd ==
    { DropLast(asm[n][1]) : n \in { m \in 1..(EndIdx - 1) :
                                      Len(asm[m]) > 0 /\ IsLabel(asm[m][1]) } }

LabelsAfterEnd ==
    { DropLast(asm[n][1]) : n \in { m \in (EndIdx + 1)..Len(asm) :
                                      Len(asm[m]) > 0 /\ IsLabel(asm[m][1]) } }

OrgOperand(n) == ParseInt(asm[n][2], 16).val

RECURSIVE CounterAt(_)
\* the location counter on reaching line n: 0 at the first line, the operand
\* after an org line, one more after any other line
CounterAt(n) ==
    IF n = 1 THEN 0
    ELSE IF IsOrgLine(n - 1) THEN OrgOperand(n - 1)
    ELSE CounterAt(n - 1) + 1

\* no org directive before end moves the counter below its current value
OrgsNeverLower ==
    \A n \in 1..(EndIdx - 1) : IsOrgLine(n) => OrgOperand(n) >= CounterAt(n)

AssignedAddrs == { CounterAt(n) : n \in InstrLines }

KeyOfLine(n) == Format2bin(Str(CounterAt(n)), T_dec, AddrBits).val

\* the six classification rules of Pass 2, by their position in the order
Matches(r, line) ==
    CASE r = 1 -> DictHas(mri_table, line[1])
      [] r = 2 -> DictHas(rri_table, line[1])
      [] r = 3 -> Len(line) >= 2 /\ DictHas(rri_table, line[2])
      [] r = 4 -> DictHas(ioi_table, line[1])
      [] r = 5 -> Len(line) >= 2 /\ line[2] = T_hex
      [] r = 6 -> Len(line) >= 2 /\ line[2] = T_dec

Rules == 1..6

Unmatched(line) == \A r \in Rules : ~Matches(r, line)

Earliest(line) ==
    CHOOSE r \in Rules : Matches(r, line) /\ \A q \in 1..(r - 1) : ~Matches(q, line)

\* the word rule r prescribes for a line, with Pass 1's table
RuleWord(r, line) ==
    CASE r = 1 -> <<"0">> \o DictGet(mri_table, line[1])
                          \o DictGet(address_symbol_table, line[2])
      [] r = 2 -> DictGet(rri_table, line[1])
      [] r = 3 -> DictGet(rri_table, line[2])
      [] r = 4 -> DictGet(ioi_table, line[1])
      [] r = 5 -> Format2bin(line[3], T_hex, WordBits).val
      [] r = 6 -> Format2bin(line[3], T_dec, WordBits).val

P1Examined == { p1trace[n].idx : n \in DOMAIN p1trace }

P2Stored == { p2trace[n].idx : n \in DOMAIN p2trace }

\* Pass 2 has been through line n
P2Passed(n) ==
    \/ pc = "pass2" /\ i > n
    \/ pc \in {"pass2_end", "done"} /\ i > n
    \/ pc = "raised" /\ errIn = "pass2" /\ i >= n

\* no token of the program starts with a sign
NoSignedToken ==
    \A n \in DOMAIN asm : \A t \in DOMAIN asm[n] : ~IsSign(asm[n][t][1])

TablesWellFormed ==
    /\ \A k \in DOMAIN mri_table : IsBitString(mri_table[k].v, 3)
    /\ \A k \in DOMAIN rri_table : IsBitString(rri_table[k].v, WordBits)
    /\ \A k \in DOMAIN ioi_table : IsBitString(ioi_table[k].v, WordBits)

----------------------------------------------------------------------------
(* C1 *)

ScenarioOutput ==
    << [k |-> Bits(0, AddrBits), v |-> Code_cla],
       [k |-> Bits(1, AddrBits), v |-> <<"0">> \o Code_lda \o Bits(3, AddrBits)],
       [k |-> Bits(2, AddrBits), v |-> Code_hlt],
       [k |-> Bits(3, AddrBits), v |-> Bits(5, WordBits)] >>

IsScenario ==
    /\ asm = ScenarioProgram
    /\ mri_table = ScenarioTables.mri
    /\ rri_table = ScenarioTables.rri
    /\ ioi_table = ScenarioTables.ioi

\* C1: on the scenario program and tables, assemble completes without error,
\* Pass 1 leaves the symbol table {x -> 000000000011}, and the returned
\* mapping is the four listed entries.
C1_ScenarioAssembles ==
    IsScenario =>
        /\ pc # "raised"
        /\ pc \in {"pass2", "pass2_end", "done"} =>
              address_symbol_table = <<[k |-> T_x, v |-> Bits(3, AddrBits)]>>
        /\ pc = "done" => ret = [returned |-> TRUE, value |-> ScenarioOutput]

----------------------------------------------------------------------------
(* C2 *)

\* C2: for every word Pass 2 stored for a line whose first token is a
\* memory-reference mnemonic and whose operand is a label defined exactly once
\* before end, the word is "0" + the mnemonic's code + the address Pass 1
\* recorded for the label; that address is the key under which Pass 2 stores
\* the word of the label's definition line, and the two passes' location
\* counters agree at that line.
C2_LabelAddressAgrees ==
    \A u \in DOMAIN p2trace :
        LET line == asm[p2trace[u].idx]
        IN  (/\ DictHas(mri_table, line[1])
             /\ Len(line) >= 2
             /\ Cardinality(LabelDefs(line[2])) = 1)
            => LET d == CHOOSE n \in LabelDefs(line[2]) : TRUE
               IN  /\ DictHas(address_symbol_table, line[2])
                   /\ p2trace[u].word
                        = <<"0">> \o DictGet(mri_table, line[1])
                                  \o DictGet(address_symbol_table, line[2])
                   /\ \A w \in DOMAIN p2trace :
                         p2trace[w].idx = d =>
                            /\ p2trace[w].key = DictGet(address_symbol_table, line[2])
                            /\ \A v \in DOMAIN p1trace :
                                  p1trace[v].idx = d => p1trace[v].lc = p2trace[w].lc

\* a forward reference, resolved to a non-zero address after an org, whose
\* definition line has been stored too
C2_Witness ==
    /\ pc = "done"
    /\ \E u, w \in DOMAIN p2trace :
          LET line == asm[p2trace[u].idx]
          IN  /\ DictHas(mri_table, line[1])
              /\ Len(line) >= 2
              /\ LabelDefs(line[2]) = {p2trace[w].idx}
              /\ p2trace[u].idx < p2trace[w].idx
              /\ p2trace[w].lc >= 3
              /\ p2trace[w].key = Bits(p2trace[w].lc, AddrBits)
              /\ \E n \in 1..(p2trace[u].idx - 1) : IsOrgLine(n) /\ OrgOperand(n) > 0

----------------------------------------------------------------------------
(* C3 *)

\* C3 (as stated): a program that assembles without error and has k
\* instruction-bearing lines before end returns a mapping of exactly k
\* entries, whatever its org directives.
C3_ExactlyK ==
    pc = "done" => Len(ret.value) = Cardinality(InstrLines)

\* C3 (amended): the returned mapping has one entry per distinct address
\* assigned to the k instruction-bearing lines: at most k entries, and exactly
\* k whenever no org directive moves the counter below its current value.
C3_OneEntryPerAddress ==
    pc = "done" =>
        /\ Len(ret.value) = Cardinality(AssignedAddrs)
        /\ Len(ret.value) <= Cardinality(InstrLines)
        /\ OrgsNeverLower => Len(ret.value) = Cardinality(InstrLines)

\* an org directive between two instruction-bearing lines moves the counter
\* forward, and both lines have their entry
C3_Witness ==
    /\ pc = "done"
    /\ OrgsNeverLower
    /\ \E n \in 2..(EndIdx - 1) :
          IsOrgLine(n) /\ OrgOperand(n) > CounterAt(n) /\ CounterAt(n) > 0
    /\ Cardinality(InstrLines) >= 2
    /\ Len(ret.value) = Cardinality(InstrLines)

----------------------------------------------------------------------------
(* C4 *)

\* C4: neither pass examines a line after the first end line: a label defined
\* only after it is absent from the symbol table, and every word of the
\* output mapping was stored for a line before it.
C4_EndTruncates ==
    /\ \A n \in P1Examined : n <= EndIdx
    /\ \A n \in P2Stored : n < EndIdx
    /\ pc \in {"pass1", "pass1_end", "pass2", "pass2_end"} => i <= EndIdx + 1
    /\ DictKeys(address_symbol_table) \subseteq LabelsBeforeEnd
    /\ \A name \in LabelsAfterEnd \ LabelsBeforeEnd :
          ~DictHas(address_symbol_table, name)
    /\ \A k \in DOMAIN bin :
          \E n \in InstrLines : n \in P2Stored /\ bin[k].k = KeyOfLine(n)

\* assembly finished with an instruction and a label definition after end
C4_Witness ==
    /\ pc = "done"
    /\ EndIdx < Len(asm)
    /\ LabelsAfterEnd \ LabelsBeforeEnd # {}
    /\ \E n \in (EndIdx + 1)..Len(asm) : ~Unmatched(asm[n])
    /\ Len(ret.value) > 0

----------------------------------------------------------------------------
(* C5 *)

\* C5: a processed line that matches none of the six classification rules
\* makes assembly fail; no word, and so no empty word, is stored for it.
C5_UnmatchedIsFatal ==
    /\ \A n \in P2Stored : ~Unmatched(asm[n])
    /\ \A k \in DOMAIN bin : bin[k].v # << >>

----------------------------------------------------------------------------
(* C6 *)

\* C6: once Pass 2 has been through a line whose first token is a
\* memory-reference mnemonic and whose operand is absent from the Pass 1
\* symbol table, assemble has raised at that line and has returned no mapping.
C6_UndefinedSymbolAborts ==
    /\ \A n \in DOMAIN asm :
          (/\ P2Passed(n)
           /\ Len(asm[n]) >= 2
           /\ DictHas(mri_table, asm[n][1])
           /\ ~DictHas(address_symbol_table, asm[n][2]))
          => /\ pc = "raised"
             /\ err = "KeyError"
             /\ errLine = n
             /\ ret = NoReturn
    /\ pc = "raised" => ret = NoReturn
    /\ ret.returned => pc = "done"

\* the lookup failed after earlier lines had stored their words
C6_Witness ==
    /\ pc = "raised"
    /\ err = "KeyError"
    /\ errIn = "pass2"
    /\ Len(bin) > 0
    /\ ret = NoReturn

----------------------------------------------------------------------------
(* C7 *)

\* C7: with well-formed tables and every processed line matching a rule,
\* every key of the returned mapping is 12 binary digits and every value 16
\* binary digits, whatever the (unsigned) org operands and literals.
C7_FixedWidths ==
    (/\ pc = "done"
     /\ TablesWellFormed
     /\ NoSignedToken
     /\ \A n \in InstrLines : ~Unmatched(asm[n]))
    => \A k \in DOMAIN ret.value :
          /\ IsBitString(ret.value[k].k, AddrBits)
          /\ IsBitString(ret.value[k].v, WordBits)

----------------------------------------------------------------------------
(* C8 *)

\* C8: a line that is empty after comment removal crashes neither pass.
C8_EmptyLineNoCrash ==
    ~(pc = "raised" /\ errLine > 0 /\ IsEmptyLine(errLine))

----------------------------------------------------------------------------
(* C9 *)

Ascending(d) ==
    \A a, b \in DOMAIN d : a < b => KeyVal(d[a].k) < KeyVal(d[b].k)

\* C9 (as stated): the entries of the returned mapping are in strictly
\* ascending address order, for every program.
C9_AscendingOrder ==
    pc = "done" => Ascending(ret.value)

\* C9 (amended): the entries are in the order in which Pass 2 first stored
\* their addresses, which is source-line order; the order is strictly
\* ascending by address whenever no org directive moves the counter below its
\* current value.
C9_FirstStoreOrder ==
    pc = "done" =>
        /\ \A a, b \in DOMAIN ret.value :
              a < b =>
                 \E m \in InstrLines :
                    /\ KeyOfLine(m) = ret.value[a].k
                    /\ \A n \in InstrLines : KeyOfLine(n) = ret.value[b].k => m < n
        /\ OrgsNeverLower => Ascending(ret.value)

\* three or more entries in ascending order, with an org directive that
\* skips addresses between two of them
C9_Witness ==
    /\ pc = "done"
    /\ OrgsNeverLower
    /\ Len(ret.value) >= 3
    /\ \E a \in 1..(Len(ret.value) - 1) :
          KeyVal(ret.value[a + 1].k) > KeyVal(ret.value[a].k) + 1
    /\ Ascending(ret.value)

----------------------------------------------------------------------------
(* C10 *)

\* C10: the word stored for a line of two or more tokens is the word of the
\* earliest rule, in the order a-f, that the line matches; a line with an
\* input/output first token and a register-reference second token stores the
\* register-reference code of the second token, and a line with a
\* memory-reference first token stores "0" + code + address.
C10_FirstMatchWins ==
    \A u \in DOMAIN p2trace :
        LET line == asm[p2trace[u].idx]
            word == p2trace[u].word
        IN  Len(line) >= 2 =>
               /\ ~Unmatched(line) => word = RuleWord(Earliest(line), line)
               /\ (/\ DictHas(ioi_table, line[1])
                   /\ ~DictHas(mri_table, line[1])
                   /\ ~DictHas(rri_table, line[1])
                   /\ DictHas(rri_table, line[2]))
                  => word = DictGet(rri_table, line[2])
               /\ DictHas(mri_table, line[1]) => word = RuleWord(1, line)

\* a stored line that matches the input/output rule and the second-token
\* register-reference rule, whose two codes differ
C10_Witness ==
    \E u \in DOMAIN p2trace :
        LET line == asm[p2trace[u].idx]
        IN  /\ Len(line) >= 2
            /\ Matches(3, line)
            /\ Matches(4, line)
            /\ Earliest(line) = 3
            /\ DictGet(rri_table, line[2]) # DictGet(ioi_table, line[1])
            /\ p2trace[u].word = DictGet(rri_table, line[2])

====
